---- MODULE Spec2Model ----
(***************************************************************************)
(* Request execution and resilience engine of the Tradier client:          *)
(* Client.do (retry loop, fault classification, quota-aware delay),        *)
(* parseQuotaViolationExpiration, bisect and Client.GetTimeSales           *)
(* (recursive interval splitting).                                         *)
(*                                                                         *)
(* Instants are Unix seconds, durations are seconds.  Texts are sequences  *)
(* of one-character strings.                                               *)
(***************************************************************************)
EXTENDS Integers, Sequences, FiniteSets, TLC

\* ------------------------------------------------------------------ bounds
\* largest retry budget handed to Client.do by a direct caller
MaxRetries == 2
\* largest ClientParams.RetryLimit a client is constructed with
MaxRetryLimit == 1
\* reading of the clock when the client is constructed
Now0 == 300
\* the clock is observed for at most this many seconds after construction
MaxElapsed == 1
\* number of NextBackOff ticks after which the policy answers Stop
StopAfter == 3

\* --------------------------------------------------------------- constants
Second == 1
Minute == 60
\* backoff.Stop
Stop == -1
\* first interval and interval cap of the doubling schedule
InitialInterval == 1
MaxInterval == 4
\* time.Time{}: the zero instant (year 1), far before every other instant
ZeroTime == -1000000
StatusOK == 200
ErrBodyBufferOverflow == "protocol.http.TooBigBody"
MethodDelete == "DELETE"

MaxNow == Now0 + MaxElapsed

Min(a, b) == IF a <= b THEN a ELSE b

\* ------------------------------------------------------------------- texts
DigitChars == <<"0", "1", "2", "3", "4", "5", "6", "7", "8", "9">>

IsDigit(c) == \E k \in 1..10 : DigitChars[k] = c

DigitVal(c) == (CHOOSE k \in 1..10 : DigitChars[k] = c) - 1

IsSpace(c) == c \in {" ", "\t", "\n"}

RECURSIVE Digits(_)
\* decimal text of a natural number (fmt %v of an integer)
Digits(n) ==
    IF n < 10 THEN <<DigitChars[n + 1]>>
    ELSE Digits(n \div 10) \o <<DigitChars[(n % 10) + 1]>>

\* strings.HasPrefix
HasPrefix(s, p) == Len(s) >= Len(p) /\ SubSeq(s, 1, Len(p)) = p

RECURSIVE FieldsAcc(_, _, _)
FieldsAcc(s, cur, out) ==
    IF s = <<>> THEN (IF cur = <<>> THEN out ELSE Append(out, cur))
    ELSE IF IsSpace(Head(s))
         THEN FieldsAcc(Tail(s), <<>>, IF cur = <<>> THEN out ELSE Append(out, cur))
         ELSE FieldsAcc(Tail(s), Append(cur, Head(s)), out)

\* strings.Fields: the maximal runs of non-space characters
Fields(s) == FieldsAcc(s, <<>>, <<>>)

RECURSIVE ParseDigits(_, _)
ParseDigits(s, acc) ==
    IF s = <<>> THEN acc ELSE ParseDigits(Tail(s), acc * 10 + DigitVal(Head(s)))

\* the decimal digits of 2^63 - 1 and of 2^63
MaxInt64Digits ==
    <<"9", "2", "2", "3", "3", "7", "2", "0", "3", "6", "8", "5", "4", "7", "7",
      "5", "8", "0", "7">>

MinInt64Digits ==
    <<"9", "2", "2", "3", "3", "7", "2", "0", "3", "6", "8", "5", "4", "7", "7",
      "5", "8", "0", "8">>

RECURSIVE StripZeros(_)
StripZeros(ds) ==
    IF Len(ds) > 1 /\ Head(ds) = "0" THEN StripZeros(Tail(ds)) ELSE ds

RECURSIVE DigitsGreater(_, _)
\* a > b for digit sequences of the same length
DigitsGreater(a, b) ==
    IF a = <<>> THEN FALSE
    ELSE IF DigitVal(Head(a)) # DigitVal(Head(b))
         THEN DigitVal(Head(a)) > DigitVal(Head(b))
         ELSE DigitsGreater(Tail(a), Tail(b))

\* the value does not fit in 64 bits: ParseInt answers a range error
OutOfRange(ds, limit) ==
    LET z == StripZeros(ds)
    IN  Len(z) > Len(limit) \/ (Len(z) = Len(limit) /\ DigitsGreater(z, limit))

\* strconv.ParseInt(tok, 10, 64): optional sign, then one or more digits
ParseInt(tok) ==
    LET signed == tok # <<>> /\ Head(tok) \in {"+", "-"}
        ds == IF signed THEN Tail(tok) ELSE tok
    IN  IF ds = <<>> \/ (\E k \in 1..Len(ds) : ~IsDigit(ds[k]))
        THEN [err |-> TRUE, val |-> 0]
        ELSE IF OutOfRange(ds, IF signed /\ Head(tok) = "-"
                               THEN MinInt64Digits ELSE MaxInt64Digits)
        THEN [err |-> TRUE, val |-> 0]
        ELSE [err |-> FALSE,
              val |-> IF signed /\ Head(tok) = "-"
                      THEN 0 - ParseDigits(ds, 0) ELSE ParseDigits(ds, 0)]

\* Go integer division truncates toward zero
GoDiv(a, b) == IF a >= 0 THEN a \div b ELSE 0 - ((0 - a) \div b)

QuotaPrefix ==
    <<"Q", "u", "o", "t", "a", " ", "V", "i", "o", "l", "a", "t", "i", "o", "n">>

\* mutant: the milliseconds are rounded to the nearest second
parseQuotaRounded(body) ==
    IF ~HasPrefix(body, QuotaPrefix) THEN ZeroTime
    ELSE LET parts == Fields(body)
             ms == ParseInt(parts[Len(parts)])
         IN  IF ms.err THEN ZeroTime ELSE GoDiv(ms.val + 500, 1000)

\* mutant: a body that fails to parse gives the Unix epoch
parseQuotaEpochOnFailure(body) ==
    IF ~HasPrefix(body, QuotaPrefix) THEN 0
    ELSE LET parts == Fields(body)
             ms == ParseInt(parts[Len(parts)])
         IN  IF ms.err THEN 0 ELSE GoDiv(ms.val, 1000)

\* Extract quota violation expiration from body message.
parseQuotaViolationExpiration(body) ==
    IF ~HasPrefix(body, QuotaPrefix) THEN ZeroTime
    ELSE LET parts == Fields(body)
             ms == ParseInt(parts[Len(parts)])
         IN  IF ms.err THEN ZeroTime ELSE GoDiv(ms.val, 1000)

\* "Quota Violation expires in <ms>"
QuotaText(ms) ==
    QuotaPrefix \o <<" ", "e", "x", "p", "i", "r", "e", "s", " ", "i", "n", " ">>
                \o Digits(ms)

PlainText == <<"b", "u", "s", "y">>

\* ------------------------------------------------- requests and responses
\* url.Values handed to do: nil, or the form of an order
NilForm == [nil |-> TRUE, pairs |-> <<>>]

OrderForm == [nil |-> FALSE, pairs |-> <<"class=equity", "symbol=X">>]

\* a response body: a JSON fault object, a JSON time series, or plain text
Body(kind, code, isArray, items, text) ==
    [kind |-> kind, code |-> code, isArray |-> isArray, items |-> items,
     text |-> text]

NoBody == Body("none", "", FALSE, <<>>, <<>>)

FaultBody(code) == Body("fault", code, FALSE, <<>>, <<>>)

SeriesBody(isArray, items) == Body("series", "", isArray, items, <<>>)

TextBody(text) == Body("text", "", FALSE, <<>>, text)

\* var resp *http.Response before the first attempt, and after a transport error
NoResp == [status |-> 0, body |-> NoBody, attempt |-> -1]

\* error values
Err(kind, attempt, status, code, faultString) ==
    [kind |-> kind, attempt |-> attempt, status |-> status, code |-> code,
     faultString |-> faultString]

NilErr == Err("nil", -1, 0, "", <<>>)

TransportErr(i) == Err("transport", i, 0, "", <<>>)

RequestErr == Err("request", -1, 0, "", <<>>)

DecodeErr == Err("decode", -1, 0, "", <<>>)

TradierError(status, code, faultString) ==
    Err("TradierError", -1, status, code, faultString)

\* what one loop iteration meets: the request cannot be built, the transport
\* fails, or a response arrives
NotSent == [type |-> "notsent", status |-> 0, body |-> NoBody]

Transport == [type |-> "transport", status |-> 0, body |-> NoBody]

Response(status, body) == [type |-> "response", status |-> status, body |-> body]

\* the instants at which the server holds a bar
DataPoints == {60, 120, 200}

RECURSIVE Ascending(_)
\* the members of a set of instants in increasing order
Ascending(S) ==
    IF S = {} THEN <<>>
    ELSE LET m == CHOOSE x \in S : \A y \in S : x <= y
         IN  <<m>> \o Ascending(S \ {m})

\* the bars the server holds for the range of url, both ends included
Series(url) ==
    Ascending({p \in DataPoints : /\ (url.hasStart => url.start <= p)
                                  /\ (url.hasEnd => p <= url.end)})

\* the body of a 200 answer: a bare object when there is exactly one bar
SeriesAnswer(url) == SeriesBody(Len(Series(url)) # 1, Series(url))

\* quota answers: an expiry within the second after construction, one three
\* seconds after it, and the prefix with no expiry
QuotaOutcomes ==
    { Response(429, TextBody(QuotaText((Now0 + 1) * 1000 + 999))),
      Response(429, TextBody(QuotaText((Now0 + 3) * 1000))),
      Response(429, TextBody(QuotaPrefix)) }

\* the responses a server may give to a request for url; quota answers are
\* drawn for the requests of the direct callers of do
Outcomes(url) ==
    { Transport,
      Response(StatusOK, SeriesAnswer(url)),
      Response(StatusOK, TextBody(PlainText)),
      Response(400, FaultBody(ErrBodyBufferOverflow)),
      Response(401, FaultBody("protocol.http.Unauthorized")),
      Response(503, TextBody(PlainText)) }
    \cup (IF url.path = "/v1/markets/timesales" THEN {} ELSE QuotaOutcomes)

InvalidMethods == {"BAD METHOD"}

\* mutant: the form header is set for every method
makeSignedRequestAlwaysForm(method, url, form) ==
    IF method \in InvalidMethods
    THEN [err |-> TRUE, method |-> method, url |-> url, body |-> <<>>,
          hasBody |-> FALSE, headers |-> {}]
    ELSE [err |-> FALSE, method |-> method, url |-> url,
          body |-> IF form.nil THEN <<>> ELSE form.pairs,
          hasBody |-> ~form.nil,
          headers |-> {"Accept", "Authorization", "Content-Type"}]

\* makeSignedRequest: http.NewRequest rejects a method that is no token
makeSignedRequest(method, url, form) ==
    IF method \in InvalidMethods
    THEN [err |-> TRUE, method |-> method, url |-> url, body |-> <<>>,
          hasBody |-> FALSE, headers |-> {}]
    ELSE [err |-> FALSE, method |-> method, url |-> url,
          body |-> IF form.nil THEN <<>> ELSE form.pairs,
          hasBody |-> ~form.nil,
          headers |-> {"Accept", "Authorization"}
                      \cup (IF method # MethodDelete THEN {"Content-Type"} ELSE {})]

\* json.Unmarshal(respBody, &tradierErr): any JSON object decodes, text does not
UnmarshalFault(body) ==
    [err |-> body.kind \notin {"fault", "series"}, code |-> body.code]

\* mutant: the loop stops one iteration early
LoopCondStrict(i, maxRetries) == i < maxRetries

\* the loop condition of do
LoopCond(i, maxRetries) == i <= maxRetries

\* mutant: the policy starts over when it reaches the stop sentinel
TickedWithReset(ticks) == IF ticks + 1 >= StopAfter THEN 0 ELSE ticks + 1

\* the state of the policy after NextBackOff: one more interval handed out,
\* and once stopped it stays stopped
Ticked(ticks) == Min(ticks + 1, StopAfter)

\* tc.backoff.NextBackOff() of a policy that has handed out `ticks` intervals:
\* a doubling schedule with a cap, then the Stop sentinel
NextBackOff(ticks) ==
    IF ticks >= StopAfter THEN Stop
    ELSE Min(InitialInterval * (2 ^ ticks), MaxInterval)

\* mutant: the raw body is not stored in the fault
UnstructuredFaultNoText(status, body) == TradierError(status, "", <<>>)

\* the fault of a non-200 response whose body did not decode
UnstructuredFault(status, body) == TradierError(status, "", body.text)

\* the fault of a non-200 response whose body decoded
StructuredFault(status, body) == TradierError(status, UnmarshalFault(body).code, <<>>)

\* mutant: the expiry is compared with the clock alone, not with the clock plus
\* the planned sleep
QuotaDelayIgnoringPlanned(text, sleep, ticks, t1, t2) ==
    LET rateLimitExpiry == parseQuotaViolationExpiration(text)
    IN  IF rateLimitExpiry > t1
        THEN [sleep |-> (rateLimitExpiry - t2) + (1 * Second), ticked |-> FALSE]
        ELSE [sleep |-> NextBackOff(ticks), ticked |-> TRUE]

\* mutant: the policy is asked for a delay before the expiry is looked at
QuotaDelayAlwaysTicks(text, sleep, ticks, t1, t2) ==
    LET rateLimitExpiry == parseQuotaViolationExpiration(text)
    IN  IF rateLimitExpiry > t1 + sleep
        THEN [sleep |-> (rateLimitExpiry - t2) + (1 * Second), ticked |-> TRUE]
        ELSE [sleep |-> NextBackOff(ticks), ticked |-> TRUE]

\* the delay after an unstructured fault: [sleep, ticked]
QuotaDelay(text, sleep, ticks, t1, t2) ==
    LET rateLimitExpiry == parseQuotaViolationExpiration(text)
    IN  IF rateLimitExpiry > t1 + sleep
        THEN [sleep |-> (rateLimitExpiry - t2) + (1 * Second), ticked |-> FALSE]
        ELSE [sleep |-> NextBackOff(ticks), ticked |-> TRUE]

\* mutant: a decoded fault is retried like any other failure
StructuredExitRetry == "continue"

\* how the iteration ends when the body decoded: "We extracted an error
\* message, don't retry."
StructuredExit == "return"

\* mutant: the sleep is skipped only for the stop sentinel
ShouldSleepUnlessStop(i, maxRetries, sleep) == sleep # Stop

\* whether do sleeps after a failed attempt
ShouldSleep(i, maxRetries, sleep) == i + 1 <= maxRetries /\ sleep # Stop

\* ------------------------------------------------------------------- state
VARIABLES
    pc,         \* "idle", "do" (in the retry loop), "afterDo", "tsRet"
    d,          \* the locals of the running do call
    ret,        \* what the last do call returned: [resp, err]
    stack,      \* the frames of the running GetTimeSales calls, outermost first
    tsRet,      \* what the last GetTimeSales frame returned: [val, err, how]
    boTicks,    \* state of the client's backoff policy: NextBackOff calls so far
    now,        \* the last reading of the clock
    retryLimit, \* Client.retryLimit
    attempts,   \* loop iterations of the running do call
    sleeps,     \* time.Sleep calls of the running do call
    ticksUsed,  \* NextBackOff calls of the running do call
    kinds,      \* the kinds of outcome the running do call has met
    last,       \* the last loop iteration of the running do call
    requests,   \* requests sent since the outermost call began
    onlyTooBig, \* every response since the outermost call began was the oversized fault
    account,    \* Client.account
    ep,         \* the endpoint method that is running, "" when none is
    epRet,      \* what the last endpoint method did: returned or panicked
    quota,      \* the last call of parseQuotaViolationExpiration and its use
    norm,       \* the last call of oneToInfinity
    stamp,      \* a text and what each entry point of the timestamp parser made of it
    procs       \* the do calls that run concurrently on the client, by goroutine

vars == <<pc, d, ret, stack, tsRet, boTicks, now, retryLimit, attempts, sleeps, ticksUsed,
          kinds, last, requests, onlyTooBig, account, ep, epRet, quota, norm,
          stamp, procs>>

\* the state of the components the retry loop and the splitter do not touch
compVars == <<account, ep, epRet, quota, norm, stamp, procs>>

NoUrl == [path |-> "", hasStart |-> FALSE, start |-> 0, hasEnd |-> FALSE, end |-> 0]

NoCall ==
    [method |-> "", url |-> NoUrl, form |-> NilForm, maxRetries |-> 0, i |-> 0,
     sleep |-> 0, resp |-> NoResp, err |-> NilErr]

NoLast ==
    [o |-> NotSent, t1 |-> 0, t2 |-> 0, prevSleep |-> 0, ticksBefore |-> 0,
     sleep |-> 0, slept |-> FALSE, ticked |-> FALSE,
     req |-> makeSignedRequest("BAD METHOD", NoUrl, NilForm)]

NoRet == [resp |-> NoResp, err |-> NilErr]

NoTsRet ==
    [val |-> <<>>, err |-> NilErr, how |-> "none", start |-> 0, end |-> 0,
     clock |-> 0, middle |-> 0, first |-> <<>>, second |-> <<>>]

NoEpRet == [how |-> "none", err |-> NilErr, val |-> <<>>, doErr |-> NilErr]

NoQuota ==
    [called |-> FALSE, body |-> <<>>, shaped |-> FALSE, ms |-> 0, expiry |-> 0,
     sleep |-> 0, ticks |-> 0, t1 |-> 0, t2 |-> 0, delay |-> 0,
     ticked |-> FALSE]

NoNorm == [b |-> NoBody, how |-> "none", val |-> <<>>, tried |-> <<>>]

\* a parse that has not been made
NoParse ==
    [done |-> FALSE, err |-> FALSE, day |-> 0, sod |-> 0, nsec |-> 0,
     format |-> 0, tried |-> <<>>]

\* a text with what it was written from
StampInput(text, kind, hh, mm, sec, n) ==
    [text |-> text, kind |-> kind, hh |-> hh, mm |-> mm, sec |-> sec, n |-> n]

NoStamp ==
    [called |-> FALSE, in |-> StampInput(<<>>, "none", 0, 0, 0, 0),
     set |-> NoParse, json |-> NoParse, ms |-> NoParse]

\* no goroutine has called do
NoProcs == <<>>

\* NewClient
Init ==
    /\ pc = "idle"
    /\ d = NoCall
    /\ ret = NoRet
    /\ stack = <<>>
    /\ tsRet = NoTsRet
    /\ boTicks = 0
    /\ now = Now0
    /\ retryLimit \in 0..MaxRetryLimit
    /\ attempts = 0
    /\ sleeps = 0
    /\ ticksUsed = 0
    /\ kinds = {}
    /\ last = NoLast
    /\ requests = 0
    /\ onlyTooBig = TRUE
    /\ account = ""
    /\ ep = ""
    /\ epRet = NoEpRet
    /\ quota = NoQuota
    /\ norm = NoNorm
    /\ stamp = NoStamp
    /\ procs = NoProcs

\* ---------------------------------------------------------------- Client.do
\* a caller enters do: the locals before the loop
StartDo(method, url, form, maxRetries) ==
    /\ d' = [method |-> method, url |-> url, form |-> form,
             maxRetries |-> maxRetries, i |-> 0, sleep |-> 0,
             resp |-> NoResp, err |-> NilErr]
    /\ ret' = NoRet
    /\ attempts' = 0
    /\ sleeps' = 0
    /\ ticksUsed' = 0
    /\ kinds' = {}
    /\ last' = NoLast
    /\ pc' = "do"

\* the inputs of the direct callers of do: method, form, retry budget
DoCalls ==
    ({"GET"} \X {NilForm} \X (-1..MaxRetries))
    \cup ({"POST"} \X {OrderForm} \X {0, MaxRetries})
    \cup ({MethodDelete, "BAD METHOD"} \X {NilForm} \X {MaxRetries})

DirectUrl ==
    [path |-> "/v1/resource", hasStart |-> FALSE, start |-> 0,
     hasEnd |-> FALSE, end |-> 0]

\* a caller other than GetTimeSales calls do
CallDo(method, form, maxRetries) ==
    /\ pc = "idle"
    /\ StartDo(method, DirectUrl, form, maxRetries)
    /\ requests' = 0
    /\ onlyTooBig' = TRUE
    /\ UNCHANGED <<stack, tsRet, boTicks, now, retryLimit>>
    /\ UNCHANGED compVars

\* one iteration of the loop of do, meeting outcome o; t1 and t2 are the two
\* readings of the clock of the unstructured branch
Iteration(dd, ticks, o, t1, t2) ==
    LET req == makeSignedRequest(dd.method, dd.url, dd.form)
        resp == [status |-> o.status, body |-> o.body, attempt |-> dd.i]
    IN  IF req.err
        THEN [exit |-> "return", resp |-> NoResp, err |-> RequestErr,
              sleep |-> dd.sleep, ticked |-> FALSE, slept |-> FALSE,
              kind |-> "request", sent |-> FALSE, req |-> req]
        ELSE IF o.type = "transport"
        THEN LET s == NextBackOff(ticks)
             IN  [exit |-> "continue", resp |-> NoResp, err |-> TransportErr(dd.i),
                  sleep |-> s, ticked |-> TRUE,
                  slept |-> ShouldSleep(dd.i, dd.maxRetries, s),
                  kind |-> "transport", sent |-> TRUE, req |-> req]
        ELSE IF o.status = StatusOK
        THEN [exit |-> "break", resp |-> resp, err |-> NilErr,
              sleep |-> dd.sleep, ticked |-> FALSE, slept |-> FALSE,
              kind |-> "ok", sent |-> TRUE, req |-> req]
        ELSE IF ~UnmarshalFault(o.body).err
        THEN [exit |-> StructuredExit, resp |-> resp,
              err |-> StructuredFault(o.status, o.body),
              sleep |-> dd.sleep, ticked |-> FALSE, slept |-> FALSE,
              kind |-> "structured", sent |-> TRUE, req |-> req]
        ELSE LET q == QuotaDelay(o.body.text, dd.sleep, ticks, t1, t2)
             IN  [exit |-> "continue", resp |-> resp,
                  err |-> UnstructuredFault(o.status, o.body),
                  sleep |-> q.sleep, ticked |-> q.ticked,
                  slept |-> ShouldSleep(dd.i, dd.maxRetries, q.sleep),
                  kind |-> "unstructured", sent |-> TRUE, req |-> req]

IsOversized(o) ==
    /\ o.type = "response"
    /\ o.status # StatusOK
    /\ o.body.kind = "fault"
    /\ o.body.code = ErrBodyBufferOverflow

IsUnstructured(o) ==
    o.type = "response" /\ o.status # StatusOK /\ UnmarshalFault(o.body).err

\* what the iteration may meet
AttemptOutcomes ==
    IF makeSignedRequest(d.method, d.url, d.form).err
    THEN {NotSent} ELSE Outcomes(d.url)

\* the expiry an unstructured answer carries, the zero instant otherwise
ExpiryOf(o) ==
    IF IsUnstructured(o) THEN parseQuotaViolationExpiration(o.body.text)
    ELSE ZeroTime

\* what time.Now() may answer in the expiry test: the clock is drawn when the
\* body carries an expiry (none is later than the zero instant)
FirstReadings(expiry) == IF expiry # ZeroTime THEN now..MaxNow ELSE {now}

\* what the second time.Now() may answer, read when the expiry test succeeded
SecondReadings(expiry, t1) ==
    IF expiry > t1 + d.sleep THEN t1..Min(t1 + 1, MaxNow) ELSE {t1}

\* one iteration of the loop of do
Attempt ==
    /\ pc = "do"
    /\ LoopCond(d.i, d.maxRetries)
    /\ \E o \in AttemptOutcomes :
         LET expiry == ExpiryOf(o)
         IN  \E t1 \in FirstReadings(expiry) :
               \E t2 \in SecondReadings(expiry, t1) :
                 LET r == Iteration(d, boTicks, o, t1, t2)
                 IN  /\ d' = [d EXCEPT
                                 !.i = IF r.exit = "continue" THEN @ + 1 ELSE @,
                                 !.sleep = r.sleep, !.resp = r.resp,
                                 !.err = r.err]
                     /\ pc' = IF r.exit = "continue" THEN "do" ELSE "afterDo"
                     /\ ret' = IF r.exit = "continue" THEN ret
                               ELSE [resp |-> r.resp, err |-> r.err]
                     /\ boTicks' = IF r.ticked THEN Ticked(boTicks) ELSE boTicks
                     /\ now' = t2
                     /\ attempts' = attempts + 1
                     /\ sleeps' = sleeps + (IF r.slept THEN 1 ELSE 0)
                     /\ ticksUsed' = ticksUsed + (IF r.ticked THEN 1 ELSE 0)
                     /\ kinds' = kinds \cup {r.kind}
                     /\ last' = [o |-> o, t1 |-> t1, t2 |-> t2,
                                 prevSleep |-> d.sleep, ticksBefore |-> boTicks,
                                 sleep |-> r.sleep, slept |-> r.slept,
                                 ticked |-> r.ticked, req |-> r.req]
                     /\ requests' = requests + (IF r.sent THEN 1 ELSE 0)
                     /\ onlyTooBig' = (onlyTooBig /\ IsOversized(o))
    /\ UNCHANGED <<stack, tsRet, retryLimit>>
    /\ UNCHANGED compVars

\* the loop condition fails: return resp, err
LoopExit ==
    /\ pc = "do"
    /\ ~LoopCond(d.i, d.maxRetries)
    /\ pc' = "afterDo"
    /\ ret' = [resp |-> d.resp, err |-> d.err]
    /\ UNCHANGED <<d, stack, tsRet, boTicks, now, retryLimit, attempts, sleeps, ticksUsed,
                   kinds, last, requests, onlyTooBig>>
    /\ UNCHANGED compVars

\* the direct caller takes the result; the locals of do are gone
DirectDone ==
    /\ pc = "afterDo"
    /\ stack = <<>>
    /\ pc' = "idle"
    /\ d' = NoCall
    /\ ret' = NoRet
    /\ attempts' = 0
    /\ sleeps' = 0
    /\ ticksUsed' = 0
    /\ kinds' = {}
    /\ last' = NoLast
    /\ requests' = 0
    /\ onlyTooBig' = TRUE
    /\ UNCHANGED <<stack, tsRet, boTicks, now, retryLimit>>
    /\ UNCHANGED compVars

Next ==
    \/ \E c \in DoCalls : CallDo(c[1], c[2], c[3])
    \/ Attempt
    \/ LoopExit
    \/ DirectDone

Spec == Init /\ [][Next]_vars

\* ------------------------------------------------------ Client.GetTimeSales
\* the URL of a time series request; a zero instant is left out
getTimeSalesUrl(start, end) ==
    [path |-> "/v1/markets/timesales",
     hasStart |-> start # ZeroTime,
     start |-> IF start # ZeroTime THEN start ELSE 0,
     hasEnd |-> end # ZeroTime,
     end |-> IF end # ZeroTime THEN end ELSE 0]

\* mutant: the midpoint is rounded up
bisectRoundUp(start, end, clock) ==
    LET e == IF end = ZeroTime THEN clock ELSE end
        delta == e - start
    IN  start + GoDiv(delta + 1, 2)

\* bisect(start, end), clock being what time.Now() answers
bisect(start, end, clock) ==
    LET e == IF end = ZeroTime THEN clock ELSE end
        delta == e - start
    IN  start + GoDiv(delta, 2)

\* mutant: the floor is one second
BelowFloorSecond(end, middle) == end - middle < 1 * Second

\* "Give up if the interval is < 1min to prevent infinite recursion."
BelowFloor(end, middle) == end - middle < 1 * Minute

\* mutant: the error code is not looked at
IsAnyTradierError(err) == err.kind = "TradierError"

\* err.(TradierError) with the oversized-body code
IsBodyBufferOverflow(err) ==
    err.kind = "TradierError" /\ err.code = ErrBodyBufferOverflow

\* decodeTimeSales with timeSaleList.UnmarshalJSON: a list, or a single object
\* taken as a list of one
decodeTimeSales(body) ==
    IF body.kind \in {"text", "none"}
    THEN [val |-> <<>>, err |-> DecodeErr]
    ELSE [val |-> body.items, err |-> NilErr]

\* mutant: the halves are appended in the other order
ConcatSwapped(firstHalf, secondHalf) == secondHalf \o firstHalf

\* allResults: firstHalf, then secondHalf
Concat(firstHalf, secondHalf) == firstHalf \o secondHalf

\* the (start, end) pairs GetTimeSales is called with
TimeRanges ==
    { <<0, 240>>, <<0, 121>>, <<0, 119>>, <<0, 118>>, <<239, 240>>, <<240, 0>>,
      <<0, ZeroTime>>, <<Now0 - 30, ZeroTime>> }

Frame(start, end) ==
    [start |-> start, end |-> end, stage |-> "do", middle |-> 0, clock |-> 0,
     firstHalf |-> <<>>]

Top == stack[Len(stack)]

\* GetTimeSales(symbol, interval, start, end) up to its call of do
EnterTimeSales(frames, start, end) ==
    /\ stack' = Append(frames, Frame(start, end))
    /\ StartDo("GET", getTimeSalesUrl(start, end), NilForm, retryLimit)

\* a frame of GetTimeSales returns val, err; the ghost fields say why and
\* keep the frame's range, clock reading, midpoint and halves
ReturnTimeSales(val, err, how, clock, middle, first, second) ==
    /\ stack' = SubSeq(stack, 1, Len(stack) - 1)
    /\ tsRet' = [val |-> val, err |-> err, how |-> how, start |-> Top.start,
                 end |-> Top.end, clock |-> clock, middle |-> middle,
                 first |-> first, second |-> second]
    /\ pc' = "tsRet"
    /\ d' = NoCall
    /\ ret' = NoRet
    /\ attempts' = 0
    /\ sleeps' = 0
    /\ ticksUsed' = 0
    /\ kinds' = {}
    /\ last' = NoLast

CallGetTimeSales(start, end) ==
    /\ pc = "idle"
    /\ EnterTimeSales(<<>>, start, end)
    /\ requests' = 0
    /\ onlyTooBig' = TRUE
    /\ UNCHANGED <<tsRet, boTicks, now, retryLimit>>
    /\ UNCHANGED compVars

\* GetTimeSales after its call of do; t is what time.Now() answers in bisect
TimeSalesAfterDo(t) ==
    /\ pc = "afterDo"
    /\ stack # <<>>
    /\ t \in (IF ret.err # NilErr /\ IsBodyBufferOverflow(ret.err)
                 /\ Top.end = ZeroTime
              THEN now..MaxNow ELSE {now})
    /\ now' = t
    /\ IF ret.err # NilErr
       THEN IF IsBodyBufferOverflow(ret.err)
            THEN LET middle == bisect(Top.start, Top.end, t)
                 IN  IF BelowFloor(Top.end, middle)
                     THEN ReturnTimeSales(<<>>, ret.err, "floor", t, middle,
                                          <<>>, <<>>)
                     ELSE /\ EnterTimeSales(
                                [stack EXCEPT ![Len(stack)] =
                                    [@ EXCEPT !.stage = "first",
                                              !.middle = middle,
                                              !.clock = t]],
                                Top.start, middle)
                          /\ UNCHANGED tsRet
            ELSE ReturnTimeSales(<<>>, ret.err, "doError", t, 0, <<>>, <<>>)
       ELSE LET r == decodeTimeSales(ret.resp.body)
            IN  ReturnTimeSales(r.val, r.err, "leaf", t, 0, <<>>, <<>>)
    /\ UNCHANGED <<boTicks, retryLimit, requests, onlyTooBig>>
    /\ UNCHANGED compVars

\* mutant: the error of the first half is looked at after the second half
HalfFailedCheckedLate(stage, err) == stage = "second" /\ err # NilErr

\* `if err != nil { return nil, err }` after each of the two recursive calls
HalfFailed(stage, err) == err # NilErr

\* GetTimeSales after one of its two recursive calls
TimeSalesAfterHalf ==
    /\ pc = "tsRet"
    /\ stack # <<>>
    /\ IF HalfFailed(Top.stage, tsRet.err)
       THEN ReturnTimeSales(<<>>, tsRet.err, "halfError", Top.clock, Top.middle,
                            Top.firstHalf, <<>>)
       ELSE IF Top.stage = "first"
       THEN /\ EnterTimeSales(
                  [stack EXCEPT ![Len(stack)] =
                      [@ EXCEPT !.stage = "second", !.firstHalf = tsRet.val]],
                  Top.middle, Top.end)
            /\ UNCHANGED tsRet
       ELSE ReturnTimeSales(Concat(Top.firstHalf, tsRet.val), NilErr, "combined",
                            Top.clock, Top.middle, Top.firstHalf, tsRet.val)
    /\ UNCHANGED <<boTicks, now, retryLimit, requests, onlyTooBig>>
    /\ UNCHANGED compVars

\* the outermost GetTimeSales has returned to its caller
TimeSalesDone ==
    /\ pc = "tsRet"
    /\ stack = <<>>
    /\ pc' = "idle"
    /\ tsRet' = NoTsRet
    /\ requests' = 0
    /\ onlyTooBig' = TRUE
    /\ UNCHANGED <<d, ret, stack, boTicks, now, retryLimit, attempts, sleeps, ticksUsed,
                   kinds, last>>
    /\ UNCHANGED compVars

NextTimeSales ==
    \/ \E r \in TimeRanges : CallGetTimeSales(r[1], r[2])
    \/ Attempt
    \/ LoopExit
    \/ \E t \in now..MaxNow : TimeSalesAfterDo(t)
    \/ TimeSalesAfterHalf
    \/ TimeSalesDone

SpecTimeSales == Init /\ [][NextTimeSales]_vars

\* the calls are synchronous: a running call always takes its next step
FairSpecTimeSales == SpecTimeSales /\ WF_vars(NextTimeSales)

\* ------------------------------------------------------------ oneToInfinity
\* The elements of a payload are numbers standing for JSON objects; 0 stands
\* for the object that sets no field of the element type.
ZeroElement == 0

\* JSON null
NullBody == Body("null", "", FALSE, <<>>, <<>>)

\* json.Unmarshal(b, result.Interface()): a JSON object decodes as one element
\* (a fault object sets none of its fields), null decodes as the nil pointer
UnmarshalSingle(b) ==
    IF b.kind = "series" /\ ~b.isArray /\ Len(b.items) = 1
    THEN [err |-> FALSE, val |-> b.items[1]]
    ELSE IF b.kind = "fault" THEN [err |-> FALSE, val |-> ZeroElement]
    ELSE IF b.kind = "null" THEN [err |-> FALSE, val |-> -1]
    ELSE [err |-> TRUE, val |-> ZeroElement]

\* json.Unmarshal(b, results.Interface()): a JSON array decodes as a slice
UnmarshalSlice(b) ==
    IF b.kind = "series" /\ b.isArray
    THEN [err |-> FALSE, val |-> b.items]
    ELSE IF b.kind = "null" THEN [err |-> FALSE, val |-> <<>>]
    ELSE [err |-> TRUE, val |-> <<>>]

\* mutant: the slice decoding is tried first and the single object is dropped
oneToInfinitySliceOnly(b) ==
    IF ~UnmarshalSlice(b).err
    THEN [how |-> "return", val |-> UnmarshalSlice(b).val, tried |-> <<"slice">>]
    ELSE IF ~UnmarshalSingle(b).err
    THEN [how |-> "return", val |-> <<>>, tried |-> <<"slice", "single">>]
    ELSE [how |-> "panic", val |-> <<>>, tried |-> <<"slice", "single">>]

\* oneToInfinity(i, b): the slice it returns, or the panic
oneToInfinity(b) ==
    IF UnmarshalSingle(b).err
    THEN IF UnmarshalSlice(b).err
         THEN [how |-> "panic", val |-> <<>>, tried |-> <<"single", "slice">>]
         ELSE [how |-> "return", val |-> UnmarshalSlice(b).val,
               tried |-> <<"single", "slice">>]
    ELSE [how |-> "return", val |-> <<UnmarshalSingle(b).val>>,
          tried |-> <<"single">>]

\* the elements a payload is made of, and the longest array
Elements == {10, 20, 30}

MaxItems == 4

RECURSIVE SeqsUpTo(_, _)
\* the sequences over S of length at most n
SeqsUpTo(S, n) ==
    IF n = 0 THEN {<<>>}
    ELSE LET shorter == SeqsUpTo(S, n - 1)
         IN  shorter \cup {Append(q, x) : q \in shorter, x \in S}

\* the payloads handed to oneToInfinity: one object, an array of 0..MaxItems
\* objects, a fault object, null, and text that is no JSON
Payloads ==
    {SeriesBody(FALSE, <<x>>) : x \in Elements}
    \cup {SeriesBody(TRUE, q) : q \in SeqsUpTo(Elements, MaxItems)}
    \cup {FaultBody("protocol.http.Unauthorized"), NullBody, TextBody(PlainText),
          TextBody(<<>>)}

\* a caller hands b to oneToInfinity
Normalize(b) ==
    /\ pc = "idle"
    /\ LET r == oneToInfinity(b)
       IN  norm' = [b |-> b, how |-> r.how, val |-> r.val, tried |-> r.tried]
    /\ UNCHANGED <<pc, d, ret, stack, tsRet, boTicks, now, retryLimit, attempts,
                   sleeps, ticksUsed, kinds, last, requests, onlyTooBig, procs, account, ep, epRet,
                   quota, stamp>>

NextNormalizer == \E b \in Payloads : Normalize(b)

SpecNormalizer == Init /\ [][NextNormalizer]_vars

\* ------------------------------------------- quota texts and their delay
\* the seconds T of the texts "... <T>000", and the sub-second parts added
QuotaSeconds == {1, 2, Now0 - 1, Now0, Now0 + 1, Now0 + 2, Now0 + 3}

SubSecondParts == {0, 1, 999}

\* <ms> printed with its sign
SignedDigits(ms) == IF ms < 0 THEN <<"-">> \o Digits(0 - ms) ELSE Digits(ms)

\* bodies of the quota shape, with the integer ms their last token stands for
ShapedBodies ==
    {[body |-> QuotaText(T * 1000 + r), shaped |-> TRUE, ms |-> T * 1000 + r] :
        T \in QuotaSeconds, r \in SubSecondParts}
    \cup {[body |-> QuotaText(T * 1000) \o <<"\n">>, shaped |-> TRUE,
           ms |-> T * 1000] : T \in {Now0 + 2}}
    \cup {[body |-> QuotaPrefix \o <<"\t">> \o <<"+">> \o Digits(T * 1000),
           shaped |-> TRUE, ms |-> T * 1000] : T \in {Now0 + 2}}
    \cup {[body |-> QuotaPrefix \o <<" ">> \o SignedDigits(ms), shaped |-> TRUE,
           ms |-> ms] : ms \in {0, -1, -1500, -2000}}

\* bodies that lack the shape: empty, no prefix, the prefix alone, a last
\* token that is no integer or no 64-bit integer
UnshapedBodies ==
    {[body |-> b, shaped |-> FALSE, ms |-> 0] :
        b \in { <<>>,
                PlainText,
                Digits(Now0 * 1000 + 5000),
                <<"e", "x", "p", "i", "r", "e", "s", " ">> \o Digits(Now0 * 1000 + 5000),
                <<"q">> \o Tail(QuotaPrefix) \o <<" ">> \o Digits(Now0 * 1000 + 5000),
                <<" ">> \o QuotaPrefix \o <<" ">> \o Digits(Now0 * 1000 + 5000),
                QuotaPrefix,
                QuotaPrefix \o <<" ">>,
                QuotaPrefix \o Digits(Now0 * 1000 + 5000),
                QuotaPrefix \o <<" ", "n", "o", "t", " ", "a", " ", "n", "u", "m",
                                 "b", "e", "r">>,
                QuotaPrefix \o <<" ">> \o Digits(Now0 * 1000 + 5000) \o <<"m", "s">>,
                QuotaPrefix \o <<" ", "3", "0", "5", ".", "5">>,
                QuotaPrefix \o <<" ", "-">>,
                QuotaPrefix \o <<" ">> \o MinInt64Digits,
                QuotaPrefix \o <<" ">> \o MaxInt64Digits \o <<"0">> }}

\* the planned sleep an iteration of do starts with: none yet, an interval of
\* the policy, or Stop
PlannedSleeps == {0, InitialInterval, MaxInterval, Stop}

\* do receives body as the undecodable body of a non-200 answer: the expiry is
\* parsed and the delay chosen
UseQuota(in, sleep, ticks, t1, t2) ==
    /\ pc = "idle"
    /\ ~quota.called
    /\ LET q == QuotaDelay(in.body, sleep, ticks, t1, t2)
       IN  quota' = [called |-> TRUE, body |-> in.body, shaped |-> in.shaped,
                     ms |-> in.ms,
                     expiry |-> parseQuotaViolationExpiration(in.body),
                     sleep |-> sleep, ticks |-> ticks, t1 |-> t1, t2 |-> t2,
                     delay |-> q.sleep, ticked |-> q.ticked]
    /\ UNCHANGED <<pc, d, ret, stack, tsRet, boTicks, now, retryLimit, attempts,
                   sleeps, ticksUsed, kinds, last, requests, onlyTooBig, procs, account, ep, epRet,
                   norm, stamp>>

NextQuota ==
    \E in \in ShapedBodies \cup UnshapedBodies, sleep \in PlannedSleeps,
       ticks \in 0..StopAfter, t1 \in Now0..MaxNow :
        \E t2 \in t1..Min(t1 + 1, MaxNow) : UseQuota(in, sleep, ticks, t1, t2)

SpecQuota == Init /\ [][NextQuota]_vars

\* --------------------------------------------------------- endpoint methods
ErrNoAccountSelected == Err("no account selected", -1, 0, "", <<>>)

\* the error of orderToParams / updateOrderParams
OrderErr == Err("order", -1, 0, "", <<>>)

\* errors.New(resp.Status + ": " + body)
StatusErr == Err("status", -1, 0, "", <<>>)

\* the account-specific methods
AccountOps ==
    {"GetAccountBalances", "GetAccountPositions", "GetAccountHistory",
     "GetAccountCostBasis", "GetOpenOrders", "GetOrderStatus", "PlaceOrder",
     "PreviewOrder", "ChangeOrder", "CancelOrder"}

\* the methods that call do themselves
OrderOps == {"PlaceOrder", "PreviewOrder", "ChangeOrder", "CancelOrder"}

\* the methods that build a form from an order
FormOps == {"PlaceOrder", "PreviewOrder", "ChangeOrder"}

\* the methods that hand the raw message of getJSON's result to oneToInfinity
NormalizedOps ==
    {"GetAccountBalances", "GetAccountPositions", "GetAccountHistory",
     "GetAccountCostBasis", "GetOrderStatus", "GetQuotes"}

Endpoints == AccountOps \cup {"GetQuotes", "GetMarketState"}

\* the accounts SelectAccount is called with, besides ""
AccountNames == {"A1"}

\* mutant: the order methods lack the guard
NeedsAccountReadsOnly(op, acct) == op \in (AccountOps \ OrderOps) /\ acct = ""

\* if tc.account == "" { return ..., ErrNoAccountSelected }
NeedsAccount(op, acct) == op \in AccountOps /\ acct = ""

EndpointMethod(op) ==
    CASE op \in {"PlaceOrder", "PreviewOrder"} -> "POST"
      [] op = "ChangeOrder" -> "PUT"
      [] op = "CancelOrder" -> MethodDelete
      [] OTHER -> "GET"

EndpointForm(op) == IF op \in FormOps THEN OrderForm ELSE NilForm

\* mutant: every method passes the client's limit
EndpointBudgetAlwaysLimit(op, limit) == limit

\* PlaceOrder never retries; the others use the client's limit
EndpointBudget(op, limit) == IF op = "PlaceOrder" THEN 0 ELSE limit

\* the URL of the method; {account} stands for tc.account
EndpointUrl(op) ==
    [path |-> CASE op = "GetAccountBalances" -> "/v1/accounts/{account}/balances"
                [] op = "GetAccountPositions" -> "/v1/accounts/{account}/positions"
                [] op = "GetAccountHistory" -> "/v1/accounts/{account}/history"
                [] op = "GetAccountCostBasis" -> "/v1/accounts/{account}/gainloss"
                [] op \in {"GetOpenOrders", "PlaceOrder", "PreviewOrder"}
                     -> "/v1/accounts/{account}/orders"
                [] op \in {"GetOrderStatus", "ChangeOrder", "CancelOrder"}
                     -> "/v1/accounts/{account}/orders/{orderId}"
                [] op = "GetQuotes" -> "/v1/markets/quotes"
                [] OTHER -> "/v1/markets/clock",
     hasStart |-> FALSE, start |-> 0, hasEnd |-> FALSE, end |-> 0]

\* the type asserted on what oneToInfinity returns is the slice of pointers it
\* builds; GetAccountBalances and GetOrderStatus assert a single pointer
SliceAsserted(op) == op \notin {"GetAccountBalances", "GetOrderStatus"}

\* getJSON(url, &result): its error, and whether result was decoded into
getJSON(r) ==
    IF r.err # NilErr THEN [how |-> "return", err |-> r.err, decoded |-> FALSE]
    ELSE IF r.resp = NoResp
    THEN [how |-> "panic", err |-> NilErr, decoded |-> FALSE]
    ELSE IF r.resp.status # StatusOK
    THEN [how |-> "return", err |-> StatusErr, decoded |-> FALSE]
    ELSE IF r.resp.body.kind \in {"text", "none"}
    THEN [how |-> "return", err |-> DecodeErr, decoded |-> FALSE]
    ELSE [how |-> "return", err |-> NilErr, decoded |-> TRUE]

\* the *json.RawMessage field of result is set when the decoded object
\* carries the field
RawMessageSet(g, body) == g.decoded /\ body.kind = "series"

\* a method built on getJSON and oneToInfinity, after getJSON: the error of
\* getJSON is overwritten by that of MarshalJSON, and MarshalJSON is called
\* on the raw message pointer whether or not it was set
NormalizedResult(op, g, body) ==
    IF g.how = "panic" \/ ~RawMessageSet(g, body)
    THEN [how |-> "panic", err |-> NilErr, val |-> <<>>]
    ELSE LET n == oneToInfinity(body)
         IN  IF n.how = "panic" \/ ~SliceAsserted(op)
             THEN [how |-> "panic", err |-> NilErr, val |-> <<>>]
             ELSE [how |-> "return", err |-> NilErr, val |-> n.val]

\* a method that returns getJSON's result and error as they are
PlainResult(g, body) ==
    IF g.how = "panic" THEN [how |-> "panic", err |-> NilErr, val |-> <<>>]
    ELSE [how |-> "return", err |-> g.err,
          val |-> IF g.decoded THEN body.items ELSE <<>>]

\* a method that calls do itself and decodes the answer
OrderResult(r) ==
    IF r.err # NilErr THEN [how |-> "return", err |-> r.err, val |-> <<>>]
    ELSE IF r.resp = NoResp THEN [how |-> "panic", err |-> NilErr, val |-> <<>>]
    ELSE IF r.resp.status # StatusOK
    THEN [how |-> "return", err |-> StatusErr, val |-> <<>>]
    ELSE IF r.resp.body.kind \in {"text", "none"}
    THEN [how |-> "return", err |-> DecodeErr, val |-> <<>>]
    ELSE [how |-> "return", err |-> NilErr, val |-> <<>>]

SelectAccount(a) ==
    /\ pc = "idle"
    /\ account' = a
    /\ UNCHANGED <<pc, d, ret, stack, tsRet, boTicks, now, retryLimit, attempts,
                   sleeps, ticksUsed, kinds, last, requests, onlyTooBig, procs, ep, epRet, quota,
                   norm, stamp>>

\* a method is called; orderOk says whether the order converts to a form
CallEndpoint(op, orderOk) ==
    /\ pc = "idle"
    /\ ep' = op
    /\ requests' = 0
    /\ onlyTooBig' = TRUE
    /\ IF NeedsAccount(op, account)
       THEN /\ epRet' = [how |-> "return", err |-> ErrNoAccountSelected,
                         val |-> <<>>, doErr |-> NilErr]
            /\ pc' = "epRet"
            /\ UNCHANGED <<d, ret, attempts, sleeps, ticksUsed, kinds, last>>
       ELSE IF op \in FormOps /\ ~orderOk
       THEN /\ epRet' = [how |-> "return", err |-> OrderErr, val |-> <<>>,
                         doErr |-> NilErr]
            /\ pc' = "epRet"
            /\ UNCHANGED <<d, ret, attempts, sleeps, ticksUsed, kinds, last>>
       ELSE /\ StartDo(EndpointMethod(op), EndpointUrl(op), EndpointForm(op),
                       EndpointBudget(op, retryLimit))
            /\ UNCHANGED epRet
    /\ UNCHANGED <<stack, tsRet, boTicks, now, retryLimit, account, quota, norm,
                   stamp, procs>>

\* the method after do has returned
EndpointAfterDo ==
    /\ pc = "afterDo"
    /\ ep # ""
    /\ LET body == ret.resp.body
           g == getJSON(ret)
           r == IF ep \in OrderOps THEN OrderResult(ret)
                ELSE IF ep \in NormalizedOps THEN NormalizedResult(ep, g, body)
                ELSE PlainResult(g, body)
       IN  epRet' = [how |-> r.how, err |-> r.err, val |-> r.val,
                     doErr |-> ret.err]
    /\ pc' = "epRet"
    /\ UNCHANGED <<d, ret, stack, tsRet, boTicks, now, retryLimit, attempts,
                   sleeps, ticksUsed, kinds, last, requests, onlyTooBig, procs, account, ep, quota,
                   norm, stamp>>

\* the caller takes the result; after a panic there is no caller to take it
EndpointDone ==
    /\ pc = "epRet"
    /\ epRet.how = "return"
    /\ pc' = "idle"
    /\ ep' = ""
    /\ epRet' = NoEpRet
    /\ d' = NoCall
    /\ ret' = NoRet
    /\ attempts' = 0
    /\ sleeps' = 0
    /\ ticksUsed' = 0
    /\ kinds' = {}
    /\ last' = NoLast
    /\ requests' = 0
    /\ onlyTooBig' = TRUE
    /\ UNCHANGED <<stack, tsRet, boTicks, now, retryLimit, account, quota, norm,
                   stamp, procs>>

NextEndpoints ==
    \/ \E a \in {""} \cup AccountNames : SelectAccount(a)
    \/ \E op \in Endpoints :
         \E orderOk \in (IF op \in FormOps THEN BOOLEAN ELSE {TRUE}) :
            CallEndpoint(op, orderOk)
    \/ Attempt
    \/ LoopExit
    \/ EndpointAfterDo
    \/ EndpointDone

SpecEndpoints == Init /\ [][NextEndpoints]_vars

\* ----------------------------------------------------- DateTime, ParseTimeMs
\* the year of the date a time-only text is put on
ZeroDateYear == 0

SecondsPerDay == 86400

IsLeap(y) == (y % 4 = 0 /\ y % 100 # 0) \/ y % 400 = 0

DaysIn(y, m) ==
    IF m = 2 THEN (IF IsLeap(y) THEN 29 ELSE 28)
    ELSE IF m \in {4, 6, 9, 11} THEN 30 ELSE 31

\* days from 1970-01-01 to y-m-dy, proleptic Gregorian calendar
DaysFromCivil(y, m, dy) ==
    LET yy == IF m <= 2 THEN y - 1 ELSE y
        era == yy \div 400
        yoe == yy - era * 400
        mp == (m + 9) % 12
        doy == (153 * mp + 2) \div 5 + dy - 1
        doe == yoe * 365 + yoe \div 4 - yoe \div 100 + doy
    IN  era * 146097 + doe - 719468

AllDigits(s) == s # <<>> /\ \A k \in 1..Len(s) : IsDigit(s[k])

\* the number written at positions a..b of t, -1 when they are not all digits
NumAt(t, a, b) ==
    IF AllDigits(SubSeq(t, a, b)) THEN ParseDigits(SubSeq(t, a, b), 0) ELSE -1

Parsed(day, sod, nsec) ==
    [done |-> TRUE, err |-> FALSE, day |-> day, sod |-> sod, nsec |-> nsec,
     format |-> 0, tried |-> <<>>]

ParseError ==
    [done |-> TRUE, err |-> TRUE, day |-> 0, sod |-> 0, nsec |-> 0,
     format |-> 0, tried |-> <<>>]

ValidDate(y, m, dy) == y >= 0 /\ m \in 1..12 /\ dy >= 1 /\ dy <= DaysIn(y, m)

ValidClock(h, mi, sc) == h \in 0..23 /\ mi \in 0..59 /\ sc \in 0..59

\* format 1: YYYY-MM-DDThh:mm:ss, read in UTC
ParseFull(t) ==
    IF Len(t) # 19 \/ t[5] # "-" \/ t[8] # "-" \/ t[11] # "T" \/ t[14] # ":"
       \/ t[17] # ":"
    THEN ParseError
    ELSE LET y == NumAt(t, 1, 4)
             m == NumAt(t, 6, 7)
             dy == NumAt(t, 9, 10)
             h == NumAt(t, 12, 13)
             mi == NumAt(t, 15, 16)
             sc == NumAt(t, 18, 19)
         IN  IF ValidDate(y, m, dy) /\ ValidClock(h, mi, sc)
             THEN Parsed(DaysFromCivil(y, m, dy), h * 3600 + mi * 60 + sc, 0)
             ELSE ParseError

\* format 2: YYYY-MM-DD, midnight UTC
ParseDate(t) ==
    IF Len(t) # 10 \/ t[5] # "-" \/ t[8] # "-" THEN ParseError
    ELSE LET y == NumAt(t, 1, 4)
             m == NumAt(t, 6, 7)
             dy == NumAt(t, 9, 10)
         IN  IF ValidDate(y, m, dy) THEN Parsed(DaysFromCivil(y, m, dy), 0, 0)
             ELSE ParseError

\* mutant: the time of day is put on the date of the call
ParseClockOnCurrentDate(t) ==
    IF Len(t) # 5 \/ t[3] # ":" THEN ParseError
    ELSE LET h == NumAt(t, 1, 2)
             mi == NumAt(t, 4, 5)
         IN  IF ValidClock(h, mi, 0)
             THEN Parsed(Now0 \div SecondsPerDay, h * 3600 + mi * 60, 0)
             ELSE ParseError

\* format 3: hh:mm, on January 1 of the zero year, UTC
ParseClock(t) ==
    IF Len(t) # 5 \/ t[3] # ":" THEN ParseError
    ELSE LET h == NumAt(t, 1, 2)
             mi == NumAt(t, 4, 5)
         IN  IF ValidClock(h, mi, 0)
             THEN Parsed(DaysFromCivil(ZeroDateYear, 1, 1), h * 3600 + mi * 60, 0)
             ELSE ParseError

\* mutant: the integer is read as seconds
ParseTimeSeconds(t) ==
    LET n == ParseInt(t)
    IN  IF n.err THEN ParseError
        ELSE Parsed(n.val \div SecondsPerDay, n.val % SecondsPerDay, 0)

\* format 4: an integer, milliseconds since the Unix epoch
ParseTimeMs(t) ==
    LET n == ParseInt(t)
    IN  IF n.err THEN ParseError
        ELSE LET secs == n.val \div 1000
             IN  Parsed(secs \div SecondsPerDay, secs % SecondsPerDay,
                        (n.val % 1000) * 1000000)

FormatOrder == <<1, 2, 3, 4>>

TryFormat(f, t) ==
    CASE f = 1 -> ParseFull(t)
      [] f = 2 -> ParseDate(t)
      [] f = 3 -> ParseClock(t)
      [] f = 4 -> ParseTimeMs(t)

RECURSIVE ParseFrom(_, _, _)
\* the formats of order are tried one after the other; the first that matches
\* gives the result
ParseFrom(order, t, tried) ==
    IF order = <<>> THEN [ParseError EXCEPT !.tried = tried]
    ELSE LET r == TryFormat(Head(order), t)
         IN  IF ~r.err
             THEN [r EXCEPT !.format = Head(order),
                            !.tried = Append(tried, Head(order))]
             ELSE ParseFrom(Tail(order), t, Append(tried, Head(order)))

\* mutant: the integer format is tried before the others
SetIntegerFirst(text) == ParseFrom(<<4, 1, 2, 3>>, text, <<>>)

\* DateTime.Set
Set(text) == ParseFrom(FormatOrder, text, <<>>)

\* DateTime.UnmarshalJSON: the bytes are the text
UnmarshalJSON(b) == Set(b)

\* Time.Unix of a result (for results within 32 bits of the epoch)
Unix(r) == r.day * SecondsPerDay + r.sod

\* n written with at least w digits
Pad(n, w) ==
    LET ds == Digits(n)
    IN  [k \in 1..(IF Len(ds) >= w THEN 0 ELSE w - Len(ds)) |-> "0"] \o ds

DateText(y, m, dy) == Pad(y, 4) \o <<"-">> \o Pad(m, 2) \o <<"-">> \o Pad(dy, 2)

ClockText(h, mi) == Pad(h, 2) \o <<":">> \o Pad(mi, 2)

FullText(y, m, dy, h, mi, sc) ==
    DateText(y, m, dy) \o <<"T">> \o ClockText(h, mi) \o <<":">> \o Pad(sc, 2)

NotATime == <<"n", "o", "t", " ", "a", " ", "t", "i", "m", "e">>

NotANumber == <<"n", "o", "t", " ", "a", " ", "n", "u", "m", "b", "e", "r">>

\* the dates and times of day the texts are written from
Dates == {<<2006, 1, 2>>, <<1970, 1, 1>>, <<2000, 2, 29>>, <<1999, 12, 31>>}

Clocks == {<<15, 4>>, <<0, 0>>, <<9, 30>>, <<23, 59>>}

\* instants "now" of the tests, as seconds and milliseconds within the second
Instants == {<<sc, ms>> : sc \in {0, Now0, MaxNow, 1136214}, ms \in {0, 5, 45, 456, 999}}

FullInputs ==
    {StampInput(FullText(dt[1], dt[2], dt[3], c[1], c[2], 5), "datetime",
                c[1], c[2], 0, 0) : dt \in Dates, c \in Clocks}

DateInputs == {StampInput(DateText(dt[1], dt[2], dt[3]), "date", 0, 0, 0, 0) : dt \in Dates}

ClockInputs == {StampInput(ClockText(c[1], c[2]), "clock", c[1], c[2], 0, 0) : c \in Clocks}

\* the milliseconds of an instant, written as <seconds><three digits>
MsInputs ==
    {StampInput(Digits(i[1] * 1000 + i[2]), "ms", 0, 0, i[1], i[1] * 1000 + i[2]) :
        i \in Instants}
    \cup {StampInput(Digits(i[1]) \o <<"0", "0", "0">>, "ms", 0, 0, i[1], i[1] * 1000) :
            i \in Instants}

\* texts of none of the four formats
OtherInputs ==
    {StampInput(t, "none", 0, 0, 0, 0) :
        t \in { NotATime, NotANumber, <<>>,
                DateText(2006, 13, 2), DateText(2006, 2, 30), DateText(1999, 2, 29),
                ClockText(24, 0), ClockText(15, 60),
                ClockText(15, 4) \o <<":", "0", "5">>,
                DateText(2006, 1, 2) \o <<"T">> \o ClockText(15, 4),
                DateText(2006, 1, 2) \o <<" ">> \o ClockText(15, 4) \o <<":", "0", "5">>,
                <<"1", "2", ".", "5">>, <<"1", "2", "3", "m", "s">>,
                MaxInt64Digits \o <<"0">> }}

StampInputs == FullInputs \cup DateInputs \cup ClockInputs \cup MsInputs \cup OtherInputs

\* the calls are made on one text
SameText(in) == ~stamp.called \/ stamp.in = in

CallSet(in) ==
    /\ pc = "idle"
    /\ SameText(in)
    /\ ~stamp.set.done
    /\ stamp' = [stamp EXCEPT !.called = TRUE, !.in = in, !.set = Set(in.text)]
    /\ UNCHANGED <<pc, d, ret, stack, tsRet, boTicks, now, retryLimit, attempts,
                   sleeps, ticksUsed, kinds, last, requests, onlyTooBig, procs, account, ep, epRet,
                   quota, norm>>

CallUnmarshalJSON(in) ==
    /\ pc = "idle"
    /\ SameText(in)
    /\ ~stamp.json.done
    /\ stamp' = [stamp EXCEPT !.called = TRUE, !.in = in,
                              !.json = UnmarshalJSON(in.text)]
    /\ UNCHANGED <<pc, d, ret, stack, tsRet, boTicks, now, retryLimit, attempts,
                   sleeps, ticksUsed, kinds, last, requests, onlyTooBig, procs, account, ep, epRet,
                   quota, norm>>

CallParseTimeMs(in) ==
    /\ pc = "idle"
    /\ SameText(in)
    /\ ~stamp.ms.done
    /\ stamp' = [stamp EXCEPT !.called = TRUE, !.in = in,
                              !.ms = [ParseTimeMs(in.text) EXCEPT !.format = 4]]
    /\ UNCHANGED <<pc, d, ret, stack, tsRet, boTicks, now, retryLimit, attempts,
                   sleeps, ticksUsed, kinds, last, requests, onlyTooBig, procs, account, ep, epRet,
                   quota, norm>>

NextTimestamp ==
    \E in \in StampInputs :
        \/ CallSet(in)
        \/ CallUnmarshalJSON(in)
        \/ CallParseTimeMs(in)

SpecTimestamp == Init /\ [][NextTimestamp]_vars

\* ------------------------------------------- concurrent calls of Client.do
\* the goroutines that call do on the one client
Goroutines == {1, 2}

\* what the servers answer to the concurrent calls
ConcurrentOutcomes ==
    { Transport,
      Response(StatusOK, TextBody(PlainText)),
      Response(503, TextBody(PlainText)) }

\* mutant: each call has a policy of its own
PolicyStatePerCall(shared, own) == own

\* tc.backoff is the one policy of the client: a call reads the state every
\* call has left
PolicyState(shared, own) == shared

\* a goroutine in do: its locals, where it is ("loop", "next" between the read
\* and the write of NextBackOff, "done"), the policy state it has read, the
\* delays the policy has handed to it and the policy states they were handed at
NewProc(maxRetries) ==
    [d |-> [NoCall EXCEPT !.method = "GET", !.url = DirectUrl,
                          !.maxRetries = maxRetries],
     stage |-> "loop", read |-> 0, delays |-> <<>>, seen |-> <<>>]

OthersTicked(g) ==
    \E h \in DOMAIN procs : h # g /\ procs[h].delays # <<>>

seqVars ==
    <<pc, d, ret, stack, tsRet, now, retryLimit, attempts, sleeps, ticksUsed,
      kinds, last, requests, onlyTooBig, account, ep, epRet, quota, norm, stamp>>

\* goroutine g calls do
GoDo(g) ==
    /\ pc = "idle"
    /\ g \notin DOMAIN procs
    /\ procs' = [h \in DOMAIN procs \cup {g} |->
                    IF h = g THEN NewProc(MaxRetries) ELSE procs[h]]
    /\ UNCHANGED boTicks
    /\ UNCHANGED seqVars

\* one iteration of the loop of do in goroutine g; when it calls NextBackOff
\* the state of the policy is read here and written back by a later step
ProcAttempt(g, o) ==
    /\ g \in DOMAIN procs
    /\ procs[g].stage = "loop"
    /\ LoopCond(procs[g].d.i, procs[g].d.maxRetries)
    /\ LET p == procs[g]
           ticks == PolicyState(boTicks, Len(p.delays))
           r == Iteration(p.d, ticks, o, now, now)
       IN  procs' = [procs EXCEPT ![g] =
                [d |-> [p.d EXCEPT
                          !.i = IF r.exit = "continue" THEN @ + 1 ELSE @,
                          !.sleep = r.sleep, !.resp = r.resp, !.err = r.err],
                 stage |-> IF r.ticked THEN "next"
                           ELSE IF r.exit = "continue" THEN "loop" ELSE "done",
                 read |-> IF r.ticked THEN ticks ELSE p.read,
                 delays |-> IF r.ticked THEN Append(p.delays, r.sleep)
                            ELSE p.delays,
                 seen |-> IF r.ticked THEN Append(p.seen, boTicks) ELSE p.seen]]
    /\ UNCHANGED boTicks
    /\ UNCHANGED seqVars

\* NextBackOff in goroutine g stores the state that follows the one it read
ProcWrite(g) ==
    /\ g \in DOMAIN procs
    /\ procs[g].stage = "next"
    /\ boTicks' = Ticked(procs[g].read)
    /\ procs' = [procs EXCEPT ![g].stage = "loop"]
    /\ UNCHANGED seqVars

\* the loop condition fails in goroutine g
ProcExit(g) ==
    /\ g \in DOMAIN procs
    /\ procs[g].stage = "loop"
    /\ ~LoopCond(procs[g].d.i, procs[g].d.maxRetries)
    /\ procs' = [procs EXCEPT ![g].stage = "done"]
    /\ UNCHANGED boTicks
    /\ UNCHANGED seqVars

\* the callers have their results; the policy stays as the calls left it
ProcsReturn ==
    /\ DOMAIN procs = Goroutines
    /\ \A g \in Goroutines : procs[g].stage = "done"
    /\ procs' = NoProcs
    /\ UNCHANGED boTicks
    /\ UNCHANGED seqVars

NextConcurrent ==
    \/ \E g \in Goroutines : GoDo(g)
    \/ \E g \in Goroutines, o \in ConcurrentOutcomes : ProcAttempt(g, o)
    \/ \E g \in Goroutines : ProcWrite(g)
    \/ \E g \in Goroutines : ProcExit(g)
    \/ ProcsReturn

SpecConcurrent == Init /\ [][NextConcurrent]_vars

\* ------------------------------------------------------------------ claims
\* C1: for every retry budget maxRetries >= 0, a call of do whose every attempt
\* fails with a transport error makes exactly maxRetries+1 attempts and
\* returns the transport error of the last attempt (and no response).
C1_TransportErrorsUseWholeBudget ==
    /\ (pc = "do" /\ d.maxRetries >= 0 /\ kinds \subseteq {"transport"})
          => (attempts = d.i /\ attempts <= d.maxRetries + 1)
    /\ (pc = "afterDo" /\ d.maxRetries >= 0 /\ kinds = {"transport"})
          => /\ attempts = d.maxRetries + 1
             /\ requests = d.maxRetries + 1
             /\ last.o = Transport
             /\ ret.err = TransportErr(attempts - 1)
             /\ ret.resp = NoResp

C1_Witness ==
    /\ pc = "afterDo"
    /\ kinds = {"transport"}
    /\ d.maxRetries = MaxRetries
    /\ attempts = MaxRetries + 1
    /\ ret.err = TransportErr(MaxRetries)

\* C2: a non-200 response whose body decodes into the fault shape ends the call
\* at that attempt: do returns that response and the decoded fault, the loop is
\* never re-entered after it and no sleep follows it, whatever budget remains
\* and whatever retryable failures came before.
C2_StructuredFaultEndsTheCall ==
    /\ (pc = "do" => "structured" \notin kinds)
    /\ (pc = "afterDo" /\ "structured" \in kinds)
          => /\ last.o.type = "response"
             /\ last.o.status # StatusOK
             /\ last.o.body.kind \in {"fault", "series"}
             /\ ret.err = TradierError(last.o.status, last.o.body.code, <<>>)
             /\ ret.resp = [status |-> last.o.status, body |-> last.o.body,
                            attempt |-> attempts - 1]
             /\ ~last.slept
             /\ ~last.ticked
             /\ attempts = d.i + 1
             /\ attempts <= d.maxRetries + 1

C2_Witness ==
    /\ pc = "afterDo"
    /\ "structured" \in kinds
    /\ "transport" \in kinds
    /\ attempts = 2
    /\ sleeps = 1
    /\ d.maxRetries = MaxRetries
    /\ ret.err.kind = "TradierError"

\* C3: when every attempt gets a non-200 response whose body does not decode,
\* do makes maxRetries+1 attempts and returns a non-nil fault that carries the
\* status code of the last response and its raw body text as the fault string.
C3_UnstructuredFaultIsRetried ==
    (pc = "afterDo" /\ d.maxRetries >= 0 /\ kinds = {"unstructured"})
        => /\ attempts = d.maxRetries + 1
           /\ ret.err # NilErr
           /\ ret.err.kind = "TradierError"
           /\ last.o.type = "response"
           /\ ret.err.status = last.o.status
           /\ ret.err.faultString = last.o.body.text
           /\ ret.resp = [status |-> last.o.status, body |-> last.o.body,
                          attempt |-> d.maxRetries]

C3_Witness ==
    /\ pc = "afterDo"
    /\ kinds = {"unstructured"}
    /\ attempts = MaxRetries + 1
    /\ ret.err.status = 503
    /\ ret.err.faultString = PlainText

C5_DelayAfterUnstructuredFault ==
    (pc \in {"do", "afterDo"} /\ attempts > 0 /\ IsUnstructured(last.o))
        => LET expiry == parseQuotaViolationExpiration(last.o.body.text)
           IN  /\ (attempts = 1 => last.prevSleep = 0)
               /\ last.t1 <= last.t2
               /\ IF expiry > last.t1 + last.prevSleep
                  THEN /\ d.sleep = (expiry - last.t2) + Second
                       /\ ~last.ticked
                       /\ boTicks = last.ticksBefore
                  ELSE /\ d.sleep = NextBackOff(last.ticksBefore)
                       /\ last.ticked
                       /\ boTicks = Ticked(last.ticksBefore)

C5_Witness ==
    /\ pc = "do"
    /\ attempts = 2
    /\ IsUnstructured(last.o)
    /\ last.prevSleep > 0
    /\ parseQuotaViolationExpiration(last.o.body.text)
          > last.t1 + last.prevSleep
    /\ d.sleep = (Now0 + 3 - last.t2) + Second

\* C6: when do returns the oversized-body fault and the range is above the
\* floor, GetTimeSales fetches [start, middle] and then [middle, end], each by
\* a call of its own with the full retry budget, and when both succeed it
\* returns the first result followed by the second.
C6_SplitFetchesHalvesInOrder ==
    /\ \A k \in 1..(Len(stack) - 1) :
         /\ stack[k].stage \in {"first", "second"}
         /\ stack[k].middle = bisect(stack[k].start, stack[k].end, stack[k].clock)
         /\ stack[k].end - stack[k].middle >= Minute
         /\ stack[k].stage = "first"
               => /\ stack[k + 1].start = stack[k].start
                  /\ stack[k + 1].end = stack[k].middle
         /\ stack[k].stage = "second"
               => /\ stack[k + 1].start = stack[k].middle
                  /\ stack[k + 1].end = stack[k].end
    /\ (pc = "do" /\ stack # <<>>)
          => /\ d.maxRetries = retryLimit
             /\ d.url = getTimeSalesUrl(Top.start, Top.end)
             /\ d.method = "GET"
             /\ attempts = d.i
             /\ Top.stage = "do"
    /\ (pc = "tsRet" /\ tsRet.how = "combined")
          => /\ tsRet.err = NilErr
             /\ tsRet.val = tsRet.first \o tsRet.second
             /\ tsRet.end - tsRet.middle >= Minute

C6_Witness ==
    /\ pc = "tsRet"
    /\ stack = <<>>
    /\ tsRet.how = "combined"
    /\ tsRet.start = 0
    /\ tsRet.end = 240
    /\ tsRet.middle = 120
    /\ tsRet.first = <<60, 120>>
    /\ tsRet.second = <<120, 200>>
    /\ tsRet.val = <<60, 120, 120, 200>>

\* C7 (as claimed): the floor test uses the effective end, so an oversized-body
\* fault on a range whose end is unset is surfaced only when the instant of
\* the call is less than two minutes after start.
C7_FloorTestedAgainstEffectiveEnd ==
    (pc = "tsRet" /\ tsRet.how = "floor" /\ tsRet.end = ZeroTime)
        => tsRet.clock - tsRet.start < 2 * Minute

\* C8: a call of GetTimeSales terminates; its recursion is never deeper than
\* ceil(log2(range / 1 minute)), which is the least k >= 0 with
\* 1 minute * 2^k >= range (no recursion at all for a range of a minute or
\* less); and when every answer is the oversized-body fault it ends by
\* returning that fault, from a frame whose second half would span less than
\* one minute.
C8_SplittingTerminates ==
    /\ [](stack # <<>>
            => LET RECURSIVE Levels(_, _)
                   Levels(range, from) ==
                       IF Minute * (2 ^ from) >= range THEN from
                       ELSE Levels(range, from + 1)
                   e == IF stack[1].end = ZeroTime THEN now ELSE stack[1].end
               IN  Len(stack) - 1 <= Levels(e - stack[1].start, 0))
    /\ []((pc = "tsRet" /\ tsRet.how = "floor")
            => tsRet.end - tsRet.middle < Minute)
    /\ []((pc = "tsRet" /\ stack = <<>> /\ onlyTooBig)
            => /\ tsRet.err # NilErr
               /\ tsRet.err.kind = "TradierError"
               /\ tsRet.err.code = ErrBodyBufferOverflow
               /\ tsRet.how \in {"floor", "halfError"})
    /\ ((pc # "idle") ~> (pc = "idle"))

C8_Witness ==
    /\ pc = "tsRet"
    /\ stack = <<>>
    /\ onlyTooBig
    /\ tsRet.start = 0
    /\ tsRet.end = 240
    /\ requests = 3
    /\ tsRet.how = "halfError"
    /\ tsRet.err.code = ErrBodyBufferOverflow

\* C9: when do returns an error that is not the oversized-body fault (a
\* transport error, another structured fault, an unstructured fault after the
\* budget), GetTimeSales returns no data and that very error, opens no
\* recursive call and sends no request; the callers up the recursion hand the
\* same error on without a further request.
C9_OtherErrorsPropagate ==
    /\ [][ (/\ pc = "afterDo"
            /\ stack # <<>>
            /\ ret.err # NilErr
            /\ ~(ret.err.kind = "TradierError"
                 /\ ret.err.code = ErrBodyBufferOverflow))
           => /\ pc' = "tsRet"
              /\ tsRet'.err = ret.err
              /\ tsRet'.val = <<>>
              /\ tsRet'.how = "doError"
              /\ stack' = SubSeq(stack, 1, Len(stack) - 1)
              /\ requests' = requests ]_vars
    /\ [][ (pc = "tsRet" /\ tsRet.err # NilErr /\ stack # <<>>)
           => /\ pc' = "tsRet"
              /\ tsRet'.err = tsRet.err
              /\ tsRet'.val = <<>>
              /\ stack' = SubSeq(stack, 1, Len(stack) - 1)
              /\ requests' = requests ]_vars

C9_Witness ==
    /\ pc = "tsRet"
    /\ tsRet.how = "doError"
    /\ stack # <<>>
    /\ tsRet.err.kind = "TradierError"
    /\ tsRet.err.status = 503
    /\ tsRet.err.faultString = PlainText

C11_HalvesDisjointAndCovering ==
    \A k \in 1..Len(stack) :
        stack[k].stage = "second"
           => LET f == stack[k]
                  firstUrl == getTimeSalesUrl(f.start, f.middle)
                  secondUrl == getTimeSalesUrl(f.middle, f.end)
                  Asked(u) == {t \in f.start..f.end :
                                  /\ (u.hasStart => u.start <= t)
                                  /\ (u.hasEnd => t <= u.end)}
              IN  /\ Asked(firstUrl) \cap Asked(secondUrl) = {}
                  /\ Asked(firstUrl) \cup Asked(secondUrl) = f.start..f.end

\* C15: oneToInfinity returns a one-element sequence holding the object when
\* the payload is a single JSON object, and the elements of the array,
\* unchanged and in the order of the payload, when it is an array of 0, 1 or
\* more objects; the single-object decoding is the first one tried.
C15_NormalizerShapes ==
    norm.how # "none"
        => /\ norm.tried # <<>>
           /\ norm.tried[1] = "single"
           /\ (norm.b.kind = "series" /\ ~norm.b.isArray)
                 => /\ norm.how = "return"
                    /\ norm.val = <<norm.b.items[1]>>
                    /\ norm.tried = <<"single">>
           /\ (norm.b.kind = "series" /\ norm.b.isArray)
                 => /\ norm.how = "return"
                    /\ norm.val = norm.b.items
                    /\ Len(norm.val) \in 0..MaxItems

C15_Witness ==
    /\ norm.b = SeriesBody(TRUE, <<30, 10, 20>>)
    /\ norm.how = "return"
    /\ norm.val = <<30, 10, 20>>
    /\ norm.tried = <<"single", "slice">>

\* C16 (as claimed): when a payload decodes neither as a single object nor as
\* an array, oneToInfinity hands a decoding error to its caller and does not
\* abort.
C16_DecodeFailureIsAnError ==
    (/\ norm.how # "none"
     /\ UnmarshalSingle(norm.b).err
     /\ UnmarshalSlice(norm.b).err)
        => norm.how = "error"

\* C12: whenever the selected account is empty (a new client, or after
\* SelectAccount("")), each of the ten account-specific methods returns the
\* no-account-selected error and sends no request: do is never entered.
C12_NoAccountNoNetwork ==
    (ep \in AccountOps /\ account = "")
        => /\ pc = "epRet"
           /\ epRet.how = "return"
           /\ epRet.err = ErrNoAccountSelected
           /\ epRet.val = <<>>
           /\ requests = 0
           /\ attempts = 0
           /\ d = NoCall

C12_Witness ==
    /\ pc = "epRet"
    /\ ep = "CancelOrder"
    /\ account = ""
    /\ boTicks > 0
    /\ epRet.err = ErrNoAccountSelected
    /\ requests = 0

\* C17 (as claimed): when do ends with an error, every method built on getJSON
\* and oneToInfinity returns that error to its caller as an error value: it
\* does not abort and does not replace the error by nil.
C17_DoErrorReachesTheCaller ==
    (pc = "epRet" /\ ep \in NormalizedOps /\ epRet.doErr # NilErr)
        => /\ epRet.how = "return"
           /\ epRet.err = epRet.doErr
\* C13: for a body that starts with the quota prefix and whose last
\* whitespace-separated token is an integer number of milliseconds ms (one
\* that fits in 64 bits), the quota parser returns the instant ms div 1000
\* seconds after the epoch, the quotient truncated toward zero; a last token
\* "<T>000" gives exactly T seconds for every positive T
C13_QuotaExpiryIsMsDivThousand ==
    (quota.called /\ quota.shaped) =>
        /\ quota.ms >= 0 => quota.expiry = quota.ms \div 1000
        /\ quota.ms < 0 => quota.expiry = 0 - ((0 - quota.ms) \div 1000)
        /\ \A T \in QuotaSeconds :
               quota.body = QuotaText(T * 1000) => quota.expiry = T

C13_Witness ==
    /\ quota.called
    /\ quota.body = QuotaText((Now0 + 2) * 1000 + 999)
    /\ quota.expiry = Now0 + 2

\* C14: for a body that lacks the quota shape (empty, without the prefix, the
\* prefix alone, or a last token that is not an integer) the quota parser
\* returns the zero instant without failing, and the executor then takes its
\* delay from the backoff policy
C14_UnshapedBodyFallsBackToBackoff ==
    (quota.called /\ ~quota.shaped) =>
        /\ quota.expiry = ZeroTime
        /\ quota.ticked
        /\ quota.delay = NextBackOff(quota.ticks)

C14_Witness ==
    /\ quota.called
    /\ quota.body = QuotaPrefix
    /\ quota.expiry = ZeroTime
    /\ quota.sleep = MaxInterval
    /\ quota.ticks = 0
    /\ quota.delay = InitialInterval

\* C18: DateTime.Set and DateTime.UnmarshalJSON try the formats in the order
\* full date-time, date-only, time-only, integer milliseconds and the first
\* that matches gives the result; "2006-01-02T15:04:05" gives Unix seconds
\* 1136214245, "2006-01-02" gives 1136160000, a text of none of the four
\* formats ("not a time") gives a parse error, and both entry points give the
\* same outcome for the same text
C18_FormatsInOrderFirstMatchWins ==
    /\ \A r \in {stamp.set, stamp.json} :
           r.done =>
               /\ r.err <=> stamp.in.kind = "none"
               /\ stamp.in.kind = "datetime" => r.format = 1 /\ r.tried = <<1>>
               /\ stamp.in.kind = "date" => r.format = 2 /\ r.tried = <<1, 2>>
               /\ stamp.in.kind = "clock" => r.format = 3 /\ r.tried = <<1, 2, 3>>
               /\ stamp.in.kind = "ms" => r.format = 4 /\ r.tried = <<1, 2, 3, 4>>
               /\ stamp.in.kind = "none" => r.tried = <<1, 2, 3, 4>>
               /\ stamp.in.text = FullText(2006, 1, 2, 15, 4, 5) =>
                      r.day * 86400 + r.sod = 1136214245 /\ r.nsec = 0
               /\ stamp.in.text = DateText(2006, 1, 2) =>
                      r.day * 86400 + r.sod = 1136160000 /\ r.nsec = 0
               /\ stamp.in.text = NotATime => r.err
    /\ (stamp.set.done /\ stamp.json.done) => stamp.set = stamp.json

C18_Witness ==
    /\ stamp.in.text = FullText(2006, 1, 2, 15, 4, 5)
    /\ stamp.set.done /\ ~stamp.set.err
    /\ stamp.json.done /\ ~stamp.json.err
    /\ stamp.set.day * 86400 + stamp.set.sod = 1136214245

\* C19 as stated: a time-only text "hh:mm" is parsed to hh:mm on year 1,
\* month 1, day 1 in UTC, and "15:04" has Unix seconds -62167164960
C19_ClockAnchoredAtYearOne ==
    \A r \in {stamp.set, stamp.json} :
        (r.done /\ stamp.in.kind = "clock") =>
            /\ ~r.err
            /\ r.day = DaysFromCivil(1, 1, 1)
            /\ r.sod = stamp.in.hh * 3600 + stamp.in.mm * 60
            /\ stamp.in.text = ClockText(15, 4) =>
                   /\ r.day * 864 + r.sod \div 100 = -621671650
                   /\ r.sod % 100 = 40

\* C19 amended: a time-only text "hh:mm" is parsed to hh:mm on January 1 of
\* year 0 in UTC (719528 days before 1970-01-01, not the current date), and
\* "15:04" has Unix seconds -62167164960 = -621671650 * 100 + 40
C19_ClockAnchoredAtYearZero ==
    \A r \in {stamp.set, stamp.json} :
        (r.done /\ stamp.in.kind = "clock") =>
            /\ ~r.err
            /\ r.day = -719528
            /\ r.sod = stamp.in.hh * 3600 + stamp.in.mm * 60
            /\ r.nsec = 0
            /\ stamp.in.text = ClockText(15, 4) =>
                   /\ r.day * 864 + r.sod \div 100 = -621671650
                   /\ r.sod % 100 = 40

C19_Witness ==
    /\ stamp.in.text = ClockText(15, 4)
    /\ stamp.set.done /\ ~stamp.set.err
    /\ stamp.set.day = -719528
    /\ stamp.set.sod = 54240

C21_SleepOnlyBetweenAttempts ==
    /\ (pc \in {"do", "afterDo"} /\ attempts > 0) =>
          /\ last.slept <=>
                /\ last.o.type = "transport" \/ IsUnstructured(last.o)
                /\ d.i <= d.maxRetries
                /\ last.sleep # Stop
          /\ last.slept => pc = "do"
          /\ sleeps <= attempts
          /\ d.maxRetries >= 0 => sleeps <= d.maxRetries
    /\ pc = "afterDo" => ~last.slept
    /\ (pc = "afterDo" /\ d.maxRetries >= 0
        /\ kinds \subseteq {"transport", "unstructured"})
          => attempts = d.maxRetries + 1

C21_Witness ==
    /\ pc = "afterDo"
    /\ d.maxRetries = MaxRetries
    /\ kinds = {"transport"}
    /\ attempts = MaxRetries + 1
    /\ last.sleep = Stop
    /\ sleeps = 0

\* C22 as stated: every call of do consumes at least one tick of the client's
\* backoff policy
C22_EveryCallTicks ==
    pc = "afterDo" => ticksUsed >= 1

\* C22 amended: a call of do consumes one tick of the client's backoff policy
\* for each attempt that ends in a transport error or in an unstructured fault
\* whose quota expiry is not later than the clock plus the planned delay, and
\* none for any other attempt; a call that meets only successes, structured
\* faults or a request that cannot be built consumes no tick
C22_TicksOnlyOnBackedOffFailures ==
    /\ [](/\ ticksUsed <= attempts
          /\ (pc \in {"do", "afterDo"} /\ attempts > 0) =>
                (last.ticked <=>
                    \/ last.o.type = "transport"
                    \/ /\ IsUnstructured(last.o)
                       /\ ~(parseQuotaViolationExpiration(last.o.body.text)
                                > last.t1 + last.prevSleep))
          /\ (pc = "afterDo" /\ kinds \subseteq {"ok", "structured", "request"})
                => ticksUsed = 0
          /\ (pc = "afterDo" /\ kinds = {"transport"}) => ticksUsed = attempts)
    /\ [][attempts' = attempts + 1 =>
              ticksUsed' = ticksUsed + (IF last'.ticked THEN 1 ELSE 0)]_vars

C22_Witness ==
    /\ pc = "afterDo"
    /\ kinds = {"transport", "unstructured", "ok"}
    /\ attempts = 3
    /\ ticksUsed = 1

\* C24 as stated: no operation resets the backoff policy, the consumed ticks
\* only grow, and once the policy has reached its stop sentinel every later
\* call retries without sleeping
C24_StoppedPolicyNeverSleeps ==
    /\ [][boTicks' >= boTicks]_vars
    /\ []((pc \in {"do", "afterDo"} /\ attempts > 0
           /\ last.ticksBefore >= StopAfter) => ~last.slept)

\* C24 amended: no operation resets the backoff policy: over any sequence of
\* calls the consumed ticks only grow, every delay the policy hands out is the
\* one of the ticks consumed by all calls so far (so the first delay of a call
\* depends on the failures of the earlier calls), and once the policy has
\* reached its stop sentinel no later attempt sleeps on a delay of the policy;
\* a later attempt still sleeps when an unstructured fault carries a quota
\* expiry later than the clock plus the planned delay
C24_PolicyIsNeverReset ==
    /\ [][boTicks' >= boTicks]_vars
    /\ []((pc \in {"do", "afterDo"} /\ attempts > 0) =>
             /\ last.ticked => last.sleep = NextBackOff(last.ticksBefore)
             /\ (last.ticked /\ last.ticksBefore >= StopAfter) =>
                    (last.sleep = Stop /\ ~last.slept)
             /\ (last.slept /\ last.ticksBefore >= StopAfter) =>
                    /\ IsUnstructured(last.o)
                    /\ ~last.ticked
                    /\ parseQuotaViolationExpiration(last.o.body.text)
                           > last.t1 + last.prevSleep)

C24_Witness ==
    /\ pc = "do"
    /\ attempts = 2
    /\ ticksUsed = 2
    /\ sleeps = 0
    /\ d.i <= d.maxRetries
    /\ last.ticksBefore >= StopAfter
    /\ last.sleep = Stop

\* C25: PlaceOrder sends at most one HTTP request per call, whatever the
\* client's retry limit and whatever the outcome of the request, so a failed
\* order placement is never sent again; ChangeOrder, CancelOrder and
\* PreviewOrder pass the client's retry limit to do
C25_PlaceOrderSendsAtMostOnce ==
    /\ ep = "PlaceOrder" =>
          /\ requests <= 1
          /\ attempts <= 1
          /\ sleeps = 0
          /\ pc \in {"do", "afterDo"} => d.maxRetries = 0
    /\ (ep \in {"ChangeOrder", "CancelOrder", "PreviewOrder"}
        /\ pc \in {"do", "afterDo"}) => d.maxRetries = retryLimit

C25_Witness ==
    /\ ep = "PlaceOrder"
    /\ pc = "epRet"
    /\ retryLimit = MaxRetryLimit
    /\ requests = 1
    /\ epRet.err = TransportErr(0)

\* C26: in a split of GetTimeSales the two halves are fetched one after the
\* other, first half first: the call for the second half begins only when the
\* first half has returned without error; when the first half ends with an
\* error no request for the second half is sent, and when either half ends
\* with an error GetTimeSales returns that error and no data
C26_HalvesSequentialAndAllOrNothing ==
    /\ [][ (pc = "tsRet" /\ stack # <<>> /\ tsRet.err # NilErr)
           => /\ pc' = "tsRet"
              /\ tsRet'.how = "halfError"
              /\ tsRet'.err = tsRet.err
              /\ tsRet'.val = <<>>
              /\ stack' = SubSeq(stack, 1, Len(stack) - 1)
              /\ requests' = requests ]_vars
    /\ [][ (/\ stack # <<>>
            /\ Len(stack') = Len(stack) + 1
            /\ stack'[Len(stack)].stage = "second")
           => /\ pc = "tsRet"
              /\ tsRet.err = NilErr
              /\ Top.stage = "first"
              /\ tsRet.start = Top.start
              /\ tsRet.end = Top.middle
              /\ stack'[Len(stack')].start = Top.middle
              /\ stack'[Len(stack')].end = Top.end
              /\ requests' = requests ]_vars

C26_Witness ==
    /\ pc = "tsRet"
    /\ tsRet.how = "halfError"
    /\ tsRet.err # NilErr
    /\ tsRet.val = <<>>
    /\ tsRet.first # <<>>

\* C27: every attempt of a do call sends a request built anew from the
\* arguments of the call: the same method, URL, headers and complete encoded
\* form as the first attempt; Content-Type is set exactly when the method is
\* not DELETE, and Accept and Authorization are set on every request
C27_EveryAttemptSendsTheWholeRequest ==
    /\ []((pc \in {"do", "afterDo"} /\ attempts > 0 /\ last.o # NotSent) =>
             /\ ~last.req.err
             /\ last.req.method = d.method
             /\ last.req.url = d.url
             /\ last.req.hasBody = ~d.form.nil
             /\ last.req.body = (IF d.form.nil THEN <<>> ELSE d.form.pairs)
             /\ {"Accept", "Authorization"} \subseteq last.req.headers
             /\ "Content-Type" \in last.req.headers <=> d.method # MethodDelete)
    /\ [][ (attempts > 0 /\ attempts' = attempts + 1 /\ requests' = requests + 1)
           => last'.req = last.req ]_vars

C27_Witness ==
    /\ pc = "afterDo"
    /\ d.method = "POST"
    /\ attempts = MaxRetries + 1
    /\ requests = MaxRetries + 1
    /\ last.req.body = OrderForm.pairs
    /\ last.req.headers = {"Accept", "Authorization", "Content-Type"}

\* C23: two calls that run concurrently on one client tick the one shared
\* policy: every delay a call obtains is the policy's delay for the state all
\* calls together have left, a call obtains the policy's consecutive schedule
\* when no other call has ticked, and there are interleavings in which it does
\* not because the other call's ticks came in between
C23_TicksInterleaveOnSharedPolicy ==
    \A g \in DOMAIN procs :
        \A k \in 1..Len(procs[g].delays) :
            /\ procs[g].delays[k] = NextBackOff(procs[g].seen[k])
            /\ ~OthersTicked(g) =>
                   procs[g].delays[k] =
                       NextBackOff(Min(procs[g].seen[1] + k - 1, StopAfter))

C23_Witness ==
    /\ DOMAIN procs = Goroutines
    /\ procs[1].seen = <<0, 2>>
    /\ procs[1].delays = <<InitialInterval, MaxInterval>>
    /\ procs[2].seen = <<1>>

====
